---- MODULE Spec2Model ----
(***************************************************************************)
(* A model of ing2ofx.py: the conversion of an ING csv export into OFX     *)
(* statement files.                                                        *)
(*                                                                         *)
(* Python byte strings are sequences of one-character strings, so that     *)
(* replace, strip, slicing, regular-expression search and concatenation    *)
(* are computed as the code computes them.  The operation code and the     *)
(* debit/credit flag are only ever used as dictionary keys and compared    *)
(* for equality; they are TLA+ strings.                                    *)
(***************************************************************************)
EXTENDS Integers, Sequences, FiniteSets, TLC

VARIABLES
    csvfile,         \* the rows csv.DictReader yields, in file order
    split_by_month,  \* args.split
    pc,              \* where main is: "read", "write", "done", "aborted"
    rownum,          \* index of the row the for loop of read_csv_file is at
    idslist,         \* read_csv_file: the set of used IDs
    transactions,    \* read_csv_file: month |-> list of transaction dicts
    months,          \* main: the keys sorted(transactions.keys()) still to write
    output_files,    \* the files opened so far: [month, body], body the writes
    error,           \* the exception that ended the run, or "none"
    call,            \* unit level: the function applied and its arguments
    ret              \* unit level: its outcome, or Pending

vars == <<csvfile, split_by_month, pc, rownum, idslist, transactions, months,
          output_files, error, call, ret>>

(***************************************************************************)
(* Bounds.                                                                 *)
(***************************************************************************)
MaxRows == 3
MaxTextLen == 5
MaxAmountLen == 3
MaxUsed == 11

(***************************************************************************)
(* Characters and strings.                                                 *)
(***************************************************************************)
Digits == <<"0", "1", "2", "3", "4", "5", "6", "7", "8", "9">>

\* The characters the model uses, in ASCII order.
Ascii == <<"\t", " ", "&", "+", ",", "-", ".", "0", "1", "2", "3", "4", "5", "6",
           "7", "8", "9", ":", ";", "<", ">", "A", "B", "N", "a", "b", "g",
           "l", "m", "p", "t", "x">>

Ord(c) == CHOOSE i \in 1..Len(Ascii) : Ascii[i] = c

IsDigit(c) == \E i \in 1..Len(Digits) : Digits[i] = c

DigitValue(c) == (CHOOSE i \in 1..Len(Digits) : Digits[i] = c) - 1

\* string.whitespace of Python 2, as far as the model's characters go
IsSpace(c) == c \in {" ", "\t"}

\* The value None (a field csv.DictReader could not fill).
None == <<"None">>

\* a < b for two byte strings (Python 2 str comparison)
RECURSIVE StrLess(_, _)
StrLess(a, b) ==
    IF b = <<>> THEN FALSE
    ELSE IF a = <<>> THEN TRUE
    ELSE IF Head(a) # Head(b) THEN Ord(Head(a)) < Ord(Head(b))
    ELSE StrLess(Tail(a), Tail(b))

\* s[:n]
Prefix(s, n) == SubSeq(s, 1, IF Len(s) < n THEN Len(s) ELSE n)

\* s.replace(c, r) for a one-character c
RECURSIVE Replace(_, _, _)
Replace(s, c, r) ==
    IF s = <<>> THEN <<>>
    ELSE (IF Head(s) = c THEN r ELSE <<Head(s)>>) \o Replace(Tail(s), c, r)

\* str(n) for n >= 0
RECURSIVE Str(_)
Str(n) == IF n < 10 THEN <<Digits[n + 1]>>
          ELSE Str(n \div 10) \o <<Digits[(n % 10) + 1]>>

\* s.strip()
RECURSIVE LStrip(_)
LStrip(s) == IF s # <<>> /\ IsSpace(Head(s)) THEN LStrip(Tail(s)) ELSE s

RECURSIVE RStrip(_)
RStrip(s) == IF s # <<>> /\ IsSpace(s[Len(s)])
             THEN RStrip(SubSeq(s, 1, Len(s) - 1)) ELSE s

Strip(s) == RStrip(LStrip(s))

\* An outcome of a call: a value returned or an exception raised.
Returned(v) == [value |-> v]
Raised(e) == [raised |-> e]
IsRaised(r) == "raised" \in DOMAIN r
IsReturned(r) == "value" \in DOMAIN r

(***************************************************************************)
(* ing_code_to_trntype                                                     *)
(***************************************************************************)
af_bij_codes == {"DV", "OV", "VZ"}

af_bij_map == [Af |-> "DEBIT", Bij |-> "CREDIT"]

trn_codes == [GT |-> "PAYMENT", BA |-> "POS", GM |-> "ATM",
              IC |-> "DIRECTDEBIT", ST |-> "DIRECTDEP"]

\* A plausible slip: af_bij_map.get(af_bij, 'OTHER') instead of indexing.
ing_code_to_trntype_get(ing_code, af_bij) ==
    IF ing_code \in af_bij_codes
    THEN Returned(IF af_bij \in DOMAIN af_bij_map THEN af_bij_map[af_bij]
                  ELSE "OTHER")
    ELSE Returned(IF ing_code \in DOMAIN trn_codes THEN trn_codes[ing_code]
                  ELSE "OTHER")

\* A plausible slip: a flagged code left out of af_bij_codes.
ing_code_to_trntype_noVZ(ing_code, af_bij) ==
    IF ing_code \in {"DV", "OV"}
    THEN IF af_bij \in DOMAIN af_bij_map
         THEN Returned(af_bij_map[af_bij])
         ELSE Raised("KeyError")
    ELSE Returned(IF ing_code \in DOMAIN trn_codes THEN trn_codes[ing_code]
                  ELSE "OTHER")

ing_code_to_trntype(ing_code, af_bij) ==
    IF ing_code \in af_bij_codes
    THEN IF af_bij \in DOMAIN af_bij_map
         THEN Returned(af_bij_map[af_bij])
         ELSE Raised("KeyError")
    ELSE Returned(IF ing_code \in DOMAIN trn_codes THEN trn_codes[ing_code]
                  ELSE "OTHER")

(***************************************************************************)
(* get_transaction_amount                                                  *)
(***************************************************************************)
\* A plausible slip: the sign test is inverted.
get_transaction_amount_inverted(amount, af_bij) ==
    (IF af_bij = "Af" THEN <<>> ELSE <<"-">>) \o Replace(amount, ",", <<".">>)

get_transaction_amount(amount, af_bij) ==
    LET amount2 == Replace(amount, ",", <<".">>)
        sign    == IF af_bij = "Af" THEN <<"-">> ELSE <<>>
    IN  sign \o amount2

(***************************************************************************)
(* fix_text                                                                *)
(***************************************************************************)
\* re.sub('  +', ' ', s): every maximal run of two or more spaces becomes one
RECURSIVE SkipSpaces(_)
SkipSpaces(s) == IF s # <<>> /\ Head(s) = " " THEN SkipSpaces(Tail(s)) ELSE s

RECURSIVE CollapseSpaces(_)
CollapseSpaces(s) ==
    IF s = <<>> THEN <<>>
    ELSE IF Len(s) >= 2 /\ s[1] = " " /\ s[2] = " "
    THEN <<" ">> \o CollapseSpaces(SkipSpaces(s))
    ELSE <<Head(s)>> \o CollapseSpaces(Tail(s))

\* re.sub('  ', ' ', s): what the pattern without its '+' would do
RECURSIVE CollapsePairs(_)
CollapsePairs(s) ==
    IF s = <<>> THEN <<>>
    ELSE IF Len(s) >= 2 /\ s[1] = " " /\ s[2] = " "
    THEN <<" ">> \o CollapsePairs(Tail(Tail(s)))
    ELSE <<Head(s)>> \o CollapsePairs(Tail(s))

Escape(text) ==
    Replace(Replace(Replace(text, "&", <<"&", "a", "m", "p", ";">>),
                    ">", <<"&", "g", "t", ";">>),
            "<", <<"&", "l", "t", ";">>)

\* A plausible slip: the pattern '  ' instead of '  +'.
fix_text_pairs(ing_text) == Escape(Strip(CollapsePairs(ing_text)))

fix_text(ing_text) ==
    LET text == Strip(CollapseSpaces(ing_text))
    IN  Escape(text)

(***************************************************************************)
(* extract_time                                                            *)
(***************************************************************************)
\* \d{2}-\d{2}-(?:20)?\d{2} ([0-9]{2}):([0-9]{2}), with and without the
\* optional "20"; "d" stands for a digit, every other entry for itself.
PatternLong  == <<"d", "d", "-", "d", "d", "-", "2", "0", "d", "d", " ",
                  "d", "d", ":", "d", "d">>
PatternShort == <<"d", "d", "-", "d", "d", "-", "d", "d", " ",
                  "d", "d", ":", "d", "d">>

MatchesAt(s, i, pat) ==
    /\ i + Len(pat) - 1 <= Len(s)
    /\ \A k \in 1..Len(pat) :
          IF pat[k] = "d" THEN IsDigit(s[i + k - 1]) ELSE s[i + k - 1] = pat[k]

\* re.search returns the leftmost match; at one place the greedy (?:20)? is
\* tried first and given up only when the rest does not match.
extract_time(memo) ==
    LET at == {i \in 1..Len(memo) :
                 MatchesAt(memo, i, PatternLong) \/ MatchesAt(memo, i, PatternShort)}
    IN  IF at = {} THEN <<>>
        ELSE LET i == CHOOSE j \in at : \A k \in at : j <= k
                 n == IF MatchesAt(memo, i, PatternLong) THEN Len(PatternLong)
                      ELSE Len(PatternShort)
             IN  SubSeq(memo, i + n - 5, i + n - 4) \o SubSeq(memo, i + n - 2, i + n - 1)

(***************************************************************************)
(* make_unique_id                                                          *)
(***************************************************************************)
Fitid(accountto, dtposted, time, trnamt) ==
    accountto \o dtposted \o time \o Replace(Replace(trnamt, "-", <<>>), ".", <<>>)

\* the while loop of make_unique_id, entered with the candidate unique_id
RECURSIVE WhileInIdslist(_, _, _, _)
WhileInIdslist(fitid, idcount, unique_id, ids) ==
    IF unique_id \in ids
    THEN WhileInIdslist(fitid, idcount + 1, fitid \o Str(idcount + 1), ids)
    ELSE unique_id

\* A plausible slip: one suffix is tried and not checked again.
make_unique_id_once(accountto, dtposted, time, trnamt, ids) ==
    LET fitid == Fitid(accountto, dtposted, time, trnamt)
    IN  IF fitid \in ids THEN fitid \o Str(1) ELSE fitid

\* A plausible slip: the suffixes start at 2.
make_unique_id_from2(accountto, dtposted, time, trnamt, ids) ==
    LET fitid == Fitid(accountto, dtposted, time, trnamt)
    IN  IF fitid \in ids THEN WhileInIdslist(fitid, 2, fitid \o Str(2), ids) ELSE fitid

make_unique_id(accountto, dtposted, time, trnamt, ids) ==
    LET fitid == Fitid(accountto, dtposted, time, trnamt)
    IN  WhileInIdslist(fitid, 0, fitid, ids)

(***************************************************************************)
(* read_csv_file: the body of the loop, for one row                        *)
(***************************************************************************)
\* re.sub(r' +', '', s)
RemoveSpaces(s) == Replace(s, " ", <<>>)

\* dtposted[:6] if split_by_month else ''
Month(dtposted, split) == IF split THEN Prefix(dtposted, 6) ELSE <<>>

\* A plausible slip: the date is cut to its month when it is stored.
Dtposted_month(row) == Prefix(row.Datum, 6)

\* dtposted = row['Datum']
Dtposted(row) == row.Datum

\* A plausible slip: the month is taken even when splitting is off.
MonthOfRow_always(row, split) == Prefix(Dtposted(row), 6)

MonthOfRow(row, split) == Month(Dtposted(row), split)

\* The transaction dict of a row, the unique ID left to the caller.
\* None in 'Mededelingen' makes re.sub raise TypeError; an unknown flag
\* on a flagged code makes af_bij_map[af_bij] raise KeyError.
ReadRowBody(row, ids) ==
    LET account  == RemoveSpaces(row.Rekening)
        trntype  == ing_code_to_trntype(row.Code, row.AfBij)
        dtposted == Dtposted(row)
        trnamt   == get_transaction_amount(row.Bedrag, row.AfBij)
        name     == fix_text(row.Naam)
        accountto == row.Tegenrekening
        memo     == fix_text(row.Mededelingen)
        time     == extract_time(memo)
        unique_id == make_unique_id(accountto, dtposted, time, trnamt, ids)
    IN  IF IsRaised(trntype) THEN trntype
        ELSE IF row.Mededelingen = None THEN Raised("TypeError")
        ELSE Returned([account |-> account, trntype |-> trntype.value,
                       dtposted |-> dtposted, trnamt |-> trnamt,
                       fitid |-> unique_id, name |-> name,
                       accountto |-> accountto, memo |-> memo])

\* transactions[month].append(trn) on a defaultdict(list)
DictAppend(d, month, trn) ==
    [k \in DOMAIN d \cup {month} |->
        IF k = month
        THEN Append(IF month \in DOMAIN d THEN d[month] ELSE <<>>, trn)
        ELSE d[k]]

(***************************************************************************)
(* write_ofx_file                                                          *)
(***************************************************************************)
RECURSIVE DecimalValue(_)
DecimalValue(s) == IF s = <<>> THEN 0
                   ELSE 10 * DecimalValue(SubSeq(s, 1, Len(s) - 1))
                        + DigitValue(s[Len(s)])

\* int(s): surrounding whitespace and one sign are accepted, then digits only
int(s) ==
    LET t      == Strip(s)
        signed == t # <<>> /\ t[1] \in {"+", "-"}
        body   == IF signed THEN Tail(t) ELSE t
    IN  IF body = <<>> \/ \E k \in 1..Len(body) : ~IsDigit(body[k])
        THEN Raised("ValueError")
        ELSE Returned((IF signed /\ t[1] = "-" THEN -1 ELSE 1) * DecimalValue(body))

Range(seq) == {seq[k] : k \in 1..Len(seq)}

find_accounts(trns) == {t.account : t \in Range(trns)}

\* A plausible slip: the range is that of the first account's transactions.
find_date_range_first(trns) ==
    LET mine  == SelectSeq(trns, LAMBDA t : t.account = trns[1].account)
        dates == {int(t.dtposted) : t \in Range(mine)}
    IN  IF \E d \in {int(t.dtposted) : t \in Range(trns)} : IsRaised(d)
        THEN Raised("ValueError")
        ELSE Returned(<<CHOOSE d \in dates : \A e \in dates : d.value <= e.value,
                        CHOOSE d \in dates : \A e \in dates : d.value >= e.value>>)

find_date_range(trns) ==
    LET dates == {int(t.dtposted) : t \in Range(trns)}
    IN  IF \E d \in dates : IsRaised(d) THEN Raised("ValueError")
        ELSE Returned(<<CHOOSE d \in dates : \A e \in dates : d.value <= e.value,
                        CHOOSE d \in dates : \A e \in dates : d.value >= e.value>>)

\* The orders in which "for account in accounts" may visit a set.
Orders(S) == {f \in [1..Cardinality(S) -> S] : \A a \in S : \E i \in DOMAIN f : f[i] = a}

make_transaction(trn) == [tag |-> "STMTTRN", trn |-> trn]

RECURSIVE MapTransactions(_)
MapTransactions(trns) ==
    IF trns = <<>> THEN <<>>
    ELSE <<make_transaction(Head(trns))>> \o MapTransactions(Tail(trns))

\* what one round of "for account in accounts" writes
StatementBlock(trns, account, mindate, maxdate) ==
    <<[tag |-> "STMTRS", account |-> account,
       start_date |-> mindate, end_date |-> maxdate]>>
    \o MapTransactions(SelectSeq(trns, LAMBDA t : t.account = account))
    \o <<[tag |-> "/STMTRS"]>>

RECURSIVE StatementBlocks(_, _, _, _)
StatementBlocks(trns, order, mindate, maxdate) ==
    IF order = <<>> THEN <<>>
    ELSE StatementBlock(trns, Head(order), mindate, maxdate)
         \o StatementBlocks(trns, Tail(order), mindate, maxdate)

\* The writes of write_ofx_file, the accounts visited in the given order.
write_ofx_file(trns, order) ==
    LET range == find_date_range(trns)
    IN  IF IsRaised(range) THEN range
        ELSE Returned(<<[tag |-> "OFX"]>>
                      \o StatementBlocks(trns, order, range.value[1].value,
                                         range.value[2].value)
                      \o <<[tag |-> "/OFX"]>>)

\* A plausible slip: sorted(keys, reverse=True).
RECURSIVE sorted_reverse(_)
sorted_reverse(S) ==
    IF S = {} THEN <<>>
    ELSE LET most == CHOOSE a \in S : \A b \in S : a = b \/ StrLess(b, a)
         IN  <<most>> \o sorted_reverse(S \ {most})

\* sorted(keys)
RECURSIVE sorted(_)
sorted(S) ==
    IF S = {} THEN <<>>
    ELSE LET least == CHOOSE a \in S : \A b \in S : a = b \/ StrLess(a, b)
         IN  <<least>> \o sorted(S \ {least})

(***************************************************************************)
(* The input rows.                                                         *)
(***************************************************************************)
MakeRow(rek, teg, datum, code, afbij, bedrag, naam, med) ==
    [Rekening |-> rek, Tegenrekening |-> teg, Datum |-> datum, Code |-> code,
     AfBij |-> afbij, Bedrag |-> bedrag, Naam |-> naam, Mededelingen |-> med]

Acc1     == <<"A", "1">>
Acc2     == <<"A", " ", "2">>
AccTo    == <<"B">>
D0101    == <<"2", "0", "1", "7", "0", "1", "0", "1">>
D0102    == <<"2", "0", "1", "7", "0", "1", "0", "2">>
D0215    == <<"2", "0", "1", "7", "0", "2", "1", "5">>
DDashed  == <<"2", "0", "1", "7", "0", "3", "-", "1">>
Amt500   == <<"5", ",", "0", "0">>
Amt5001  == <<"5", ",", "0", "0", "1">>
NameA    == <<"a", " ", " ", "&", "b">>
MemoTime == <<"p", "0", "5", "-", "0", "3", "-", "1", "7", " ", "1", "4", ":", "2", "2">>
MemoYear == <<"0", "5", "-", "0", "3", "-", "2", "0", " ", "1", "4", ":", "2", "3", "<">>

\* Two rows alike in counter-account, date, time and amount (one a debit, one
\* a credit of another account), a row whose fingerprint is that of the
\* first followed by "1", rows of other days and months, a date that is no
\* number, an unknown flag on a flagged code, and a row cut short.
Rows ==
    { MakeRow(Acc1, AccTo, D0101, "GT", "Af",  Amt500,  NameA, <<>>),
      MakeRow(Acc1, AccTo, D0101, "GT", "Af",  Amt5001, NameA, <<>>),
      MakeRow(Acc2, AccTo, D0101, "DV", "Bij", Amt500,  <<>>,  <<>>),
      MakeRow(Acc2, <<>>,  D0215, "ST", "Bij", Amt500,  NameA, MemoTime),
      MakeRow(Acc1, AccTo, D0102, "OV", "Af",  Amt500,  <<>>,  MemoYear),
      MakeRow(Acc1, AccTo, DDashed, "GT", "Af", Amt500, <<>>,  <<>>),
      MakeRow(Acc1, AccTo, D0101, "VZ", "X",   Amt500,  <<>>,  <<>>),
      MakeRow(Acc1, AccTo, D0101, "GT", "Af",  Amt500,  <<>>,  None) }

SeqsUpTo(S, n) == UNION {[1..k -> S] : k \in 0..n}

Pending == [pending |-> TRUE]
NoCall  == [fn |-> "main"]

(***************************************************************************)
(* main                                                                    *)
(***************************************************************************)
Init ==
    /\ csvfile \in SeqsUpTo(Rows, MaxRows)
    /\ split_by_month \in BOOLEAN
    /\ pc = "read"
    /\ rownum = 1
    /\ idslist = {}
    /\ transactions = <<>>
    /\ months = <<>>
    /\ output_files = <<>>
    /\ error = "none"
    /\ call = NoCall
    /\ ret = Pending

\* One round of the loop "for row in csvreader".
ReadRow ==
    /\ pc = "read"
    /\ rownum <= Len(csvfile)
    /\ LET row == csvfile[rownum]
           r   == ReadRowBody(row, idslist)
       IN  IF IsRaised(r)
           THEN /\ pc' = "aborted"
                /\ error' = r.raised
                /\ UNCHANGED <<rownum, idslist, transactions>>
           ELSE /\ idslist' = idslist \cup {r.value.fitid}
                /\ transactions' = DictAppend(transactions,
                                              MonthOfRow(row, split_by_month), r.value)
                /\ rownum' = rownum + 1
                /\ UNCHANGED <<pc, error>>
    /\ UNCHANGED <<csvfile, split_by_month, months, output_files, call, ret>>

\* The reader is exhausted: read_csv_file returns and main sorts the keys.
ReturnTransactions ==
    /\ pc = "read"
    /\ rownum > Len(csvfile)
    /\ pc' = "write"
    /\ months' = sorted(DOMAIN transactions)
    /\ UNCHANGED <<csvfile, split_by_month, rownum, idslist, transactions,
                   output_files, error, call, ret>>

\* One round of "for month in sorted(transactions.keys())": the file is
\* opened for writing, which creates it, and write_ofx_file fills it.
WriteFile ==
    /\ pc = "write"
    /\ months # <<>>
    /\ LET month == Head(months)
           trns  == transactions[month]
       IN  \E order \in Orders(find_accounts(trns)) :
             LET w == write_ofx_file(trns, order)
             IN  IF IsRaised(w)
                 THEN /\ output_files' = Append(output_files,
                                                [month |-> month, body |-> <<>>])
                      /\ pc' = "aborted"
                      /\ error' = w.raised
                      /\ UNCHANGED months
                 ELSE /\ output_files' = Append(output_files,
                                                [month |-> month, body |-> w.value])
                      /\ months' = Tail(months)
                      /\ UNCHANGED <<pc, error>>
    /\ UNCHANGED <<csvfile, split_by_month, rownum, idslist, transactions, call, ret>>

\* The loop over the months is over: the statistics are printed.
PrintStatistics ==
    /\ pc = "write"
    /\ months = <<>>
    /\ pc' = "done"
    /\ UNCHANGED <<csvfile, split_by_month, rownum, idslist, transactions, months,
                   output_files, error, call, ret>>

Next == ReadRow \/ ReturnTransactions \/ WriteFile \/ PrintStatistics

Spec == Init /\ [][Next]_vars

(***************************************************************************)
(* The functions on their own, each applied to an argument of a bounded    *)
(* set.                                                                    *)
(***************************************************************************)
Codes == {"DV", "OV", "VZ", "GT", "BA", "GM", "IC", "ST", "ZZ", "", "dv", "AF"}
Flags == {"Af", "Bij", "", "af", "X"}
AmountChars == {"5", "0", ",", "-"}
TextChars == {" ", "\t", "a", "&", "<", ">"}

UnitCalls ==
    {[fn |-> "ing_code_to_trntype", ing_code |-> c, af_bij |-> f] :
        c \in Codes, f \in Flags}
    \cup {[fn |-> "get_transaction_amount", amount |-> a, af_bij |-> f] :
        a \in SeqsUpTo(AmountChars, MaxAmountLen), f \in Flags}
    \cup {[fn |-> "fix_text", ing_text |-> t] : t \in SeqsUpTo(TextChars, MaxTextLen)}
    \cup {[fn |-> "make_unique_id", accountto |-> AccTo, dtposted |-> D0101,
           time |-> t, trnamt |-> a] :
              t \in {<<>>, <<"1", "4", "2", "2">>},
              a \in {<<"5", ".", "0", "0">>, <<"-", "5", ".", "0", "0">>}}

\* The used-ID sets a call of make_unique_id may find: the IDs earlier rows
\* of the same fingerprint were given, any of them possibly missing.
UsedIds(c) ==
    IF c.fn = "make_unique_id"
    THEN LET fitid == Fitid(c.accountto, c.dtposted, c.time, c.trnamt)
         IN  {{IF j = 0 THEN fitid ELSE fitid \o Str(j) : j \in J} :
                 J \in SUBSET (0..MaxUsed)}
    ELSE {{}}

UnitInit ==
    /\ call \in UnitCalls
    /\ ret = Pending
    /\ csvfile = <<>>
    /\ split_by_month = FALSE
    /\ pc = "unit"
    /\ rownum = 1
    /\ idslist \in UsedIds(call)
    /\ transactions = <<>>
    /\ months = <<>>
    /\ output_files = <<>>
    /\ error = "none"

UnitUnchanged ==
    UNCHANGED <<csvfile, split_by_month, pc, rownum, transactions, months,
                output_files, error, call>>

Call_ing_code_to_trntype ==
    /\ pc = "unit" /\ ret = Pending
    /\ call.fn = "ing_code_to_trntype"
    /\ ret' = ing_code_to_trntype(call.ing_code, call.af_bij)
    /\ UNCHANGED idslist
    /\ UnitUnchanged

Call_get_transaction_amount ==
    /\ pc = "unit" /\ ret = Pending
    /\ call.fn = "get_transaction_amount"
    /\ ret' = Returned(get_transaction_amount(call.amount, call.af_bij))
    /\ UNCHANGED idslist
    /\ UnitUnchanged

Call_fix_text ==
    /\ pc = "unit" /\ ret = Pending
    /\ call.fn = "fix_text"
    /\ ret' = Returned(fix_text(call.ing_text))
    /\ UNCHANGED idslist
    /\ UnitUnchanged

\* unique_id = make_unique_id(...) and idslist.add(unique_id)
Call_make_unique_id ==
    /\ pc = "unit" /\ ret = Pending
    /\ call.fn = "make_unique_id"
    /\ LET unique_id == make_unique_id(call.accountto, call.dtposted, call.time,
                                       call.trnamt, idslist)
       IN  /\ ret' = Returned(unique_id)
           /\ idslist' = idslist \cup {unique_id}
    /\ UnitUnchanged

UnitNext ==
    \/ Call_ing_code_to_trntype
    \/ Call_get_transaction_amount
    \/ Call_fix_text
    \/ Call_make_unique_id

UnitSpec == UnitInit /\ [][UnitNext]_vars

\* The run and the single calls side by side.
RunOrUnitSpec == (Init \/ UnitInit) /\ [][Next \/ UnitNext]_vars

(***************************************************************************)
(* What the properties below speak of.                                     *)
(***************************************************************************)
\* The rows the loop has turned into transactions.
Processed == rownum - 1

\* Every transaction built so far, as (month, place in the month's list).
Places == UNION {{<<m, i>> : i \in 1..Len(transactions[m])} : m \in DOMAIN transactions}

TrnAt(p) == transactions[p[1]][p[2]]

\* The period key the Batch Grouper gives a row.
KeyOf(row) == IF split_by_month THEN SubSeq(row.Datum, 1, IF Len(row.Datum) < 6
                                                          THEN Len(row.Datum) ELSE 6)
              ELSE <<>>

\* The transaction of the j-th row: in the group of its key, at the place
\* the row has among the rows of that key.
TrnOfRow(j) ==
    transactions[KeyOf(csvfile[j])]
                [Cardinality({i \in 1..j : KeyOf(csvfile[i]) = KeyOf(csvfile[j])})]

\* The base fingerprint of a transaction.
BaseOf(t) == t.accountto \o t.dtposted \o extract_time(t.memo)
             \o SelectSeq(t.trnamt, LAMBDA c : c \notin {"-", "."})

IsNumeric(s) == s # <<>> /\ \A k \in 1..Len(s) : s[k] \in Range(Digits)

\* A row read_csv_file cannot take: a field is missing, or the flag of a
\* flagged code is unknown.
RowFails(row) ==
    \/ row.Mededelingen = None
    \/ row.Code \in {"DV", "OV", "VZ"} /\ row.AfBij \notin {"Af", "Bij"}

(***************************************************************************)
(* C1: the fitid values of all transactions of a run are pairwise          *)
(* distinct, across all groups.                                            *)
(***************************************************************************)
C1_FitidsDistinct ==
    \A p, q \in Places : p # q => TrnAt(p).fitid # TrnAt(q).fitid

\* Two rows share a fingerprint, and a third row's fingerprint is the
\* suffixed ID given to the second of them.
C1_Witness ==
    \E p, q, r \in Places :
        /\ p # q /\ q # r /\ p # r
        /\ BaseOf(TrnAt(p)) = BaseOf(TrnAt(q))
        /\ TrnAt(q).fitid # BaseOf(TrnAt(q))
        /\ BaseOf(TrnAt(r)) = TrnAt(q).fitid

(***************************************************************************)
(* C2: ing_code_to_trntype returns one of the eight transaction types for  *)
(* every code and every flag, and never raises.                            *)
(***************************************************************************)
TrnTypes == {"DEBIT", "CREDIT", "PAYMENT", "POS", "ATM", "DIRECTDEBIT",
             "DIRECTDEP", "OTHER"}

C2_NeverRaises ==
    (call.fn = "ing_code_to_trntype" /\ ret # Pending)
        => (IsReturned(ret) /\ ret.value \in TrnTypes)

\* C2 as amended: one of the eight types is returned unless the code is a
\* flagged one (DV, OV, VZ) and the flag is neither 'Af' nor 'Bij'; then
\* KeyError is raised.
C2_RaisesOnUnknownFlagOnly ==
    (call.fn = "ing_code_to_trntype" /\ ret # Pending)
        => IF call.ing_code \in {"DV", "OV", "VZ"} /\ call.af_bij \notin {"Af", "Bij"}
           THEN ret = Raised("KeyError")
           ELSE IsReturned(ret) /\ ret.value \in TrnTypes

C2_Witness ==
    /\ call.fn = "ing_code_to_trntype"
    /\ call.ing_code = "OV" /\ call.af_bij = "X"
    /\ ret # Pending

(***************************************************************************)
(* C3: the amount get_transaction_amount returns starts with '-' if and    *)
(* only if the flag is 'Af', for every amount string and valid flag.       *)
(***************************************************************************)
C3_SignIffDebit ==
    (call.fn = "get_transaction_amount" /\ ret # Pending
        /\ call.af_bij \in {"Af", "Bij"})
        => ((Len(ret.value) > 0 /\ ret.value[1] = "-") <=> call.af_bij = "Af")

\* C3 as amended: for every amount string that does not itself start with
\* '-', the result starts with '-' if and only if the flag is 'Af'; for
\* 'Bij' it is the amount with ',' turned into '.', for 'Af' that with one
\* '-' in front.
C3_SignIffDebitOfUnsigned ==
    (call.fn = "get_transaction_amount" /\ ret # Pending
        /\ call.af_bij \in {"Af", "Bij"}
        /\ ~(Len(call.amount) > 0 /\ call.amount[1] = "-"))
        => LET point == [k \in 1..Len(call.amount) |->
                            IF call.amount[k] = "," THEN "." ELSE call.amount[k]]
           IN  /\ (Len(ret.value) > 0 /\ ret.value[1] = "-") <=> call.af_bij = "Af"
               /\ call.af_bij = "Bij" => ret.value = point
               /\ call.af_bij = "Af" => ret.value = <<"-">> \o point

C3_Witness ==
    /\ call.fn = "get_transaction_amount"
    /\ call.amount = <<"5", ",", "0">> /\ call.af_bij = "Af"
    /\ ret = Returned(<<"-", "5", ".", "0">>)

(***************************************************************************)
(* C4: fix_text is idempotent: fix_text(fix_text(s)) = fix_text(s) for     *)
(* every s, also when s holds '&', '<' or '>'.                             *)
(***************************************************************************)
C4_Idempotent ==
    (call.fn = "fix_text" /\ ret # Pending)
        => fix_text(ret.value) = ret.value

\* C4 as amended: fix_text(fix_text(s)) = fix_text(s) exactly when s holds
\* none of '&', '<', '>'; the second pass escapes the '&' of every entity
\* the first one wrote.
C4_IdempotentIffNothingEscaped ==
    (call.fn = "fix_text" /\ ret # Pending)
        => ((fix_text(ret.value) = ret.value)
              <=> (\A k \in 1..Len(call.ing_text) :
                      call.ing_text[k] \notin {"&", "<", ">"}))

C4_Witness ==
    /\ call.fn = "fix_text"
    /\ call.ing_text = <<"\t", "a", " ", " ", " ">>
    /\ ret = Returned(<<"a">>)

(***************************************************************************)
(* C5: for a valid flag, DV, OV and VZ give DEBIT for 'Af' and CREDIT for  *)
(* 'Bij'; otherwise GT, BA, GM, IC, ST give PAYMENT, POS, ATM,             *)
(* DIRECTDEBIT, DIRECTDEP whatever the flag; every other code gives OTHER. *)
(***************************************************************************)
C5_ClassifierRules ==
    (call.fn = "ing_code_to_trntype" /\ ret # Pending
        /\ call.af_bij \in {"Af", "Bij"})
        => ret = Returned(
             CASE call.ing_code \in {"DV", "OV", "VZ"} /\ call.af_bij = "Af" -> "DEBIT"
               [] call.ing_code \in {"DV", "OV", "VZ"} /\ call.af_bij = "Bij" -> "CREDIT"
               [] call.ing_code = "GT" -> "PAYMENT"
               [] call.ing_code = "BA" -> "POS"
               [] call.ing_code = "GM" -> "ATM"
               [] call.ing_code = "IC" -> "DIRECTDEBIT"
               [] call.ing_code = "ST" -> "DIRECTDEP"
               [] OTHER -> "OTHER")

C5_Witness ==
    /\ call.fn = "ing_code_to_trntype"
    /\ call.ing_code = "VZ" /\ call.af_bij = "Bij"
    /\ ret = Returned("CREDIT")

(***************************************************************************)
(* C6: every row's transaction is in exactly one group, that of the first  *)
(* six characters of its posted date with month-splitting on and that of   *)
(* the empty string with it off; a group keeps the source-file order, and  *)
(* the group sizes sum to the number of rows.                              *)
(***************************************************************************)
FromRow(t, row) ==
    /\ t.dtposted = row.Datum
    /\ t.accountto = row.Tegenrekening
    /\ t.account = SelectSeq(row.Rekening, LAMBDA c : c # " ")
    /\ t.trnamt = get_transaction_amount(row.Bedrag, row.AfBij)
    /\ t.name = fix_text(row.Naam)
    /\ t.memo = fix_text(row.Mededelingen)

C6_Grouping ==
    /\ DOMAIN transactions = {KeyOf(csvfile[j]) : j \in 1..Processed}
    /\ \A k \in DOMAIN transactions :
          Len(transactions[k])
              = Cardinality({j \in 1..Processed : KeyOf(csvfile[j]) = k})
    /\ \A j \in 1..Processed : FromRow(TrnOfRow(j), csvfile[j])
    /\ Cardinality(Places) = Processed

\* Three rows read with splitting on: two of one month, in between them
\* one of another month.
C6_Witness ==
    /\ split_by_month
    /\ pc = "write"
    /\ Processed = 3
    /\ KeyOf(csvfile[1]) = KeyOf(csvfile[3])
    /\ KeyOf(csvfile[1]) # KeyOf(csvfile[2])
    /\ csvfile[1] # csvfile[3]

(***************************************************************************)
(* C7: for any non-empty group write_ofx_file emits exactly one statement  *)
(* block per distinct account of the group and every transaction of the    *)
(* group exactly once, in the block of its account and in the group's      *)
(* order; DTSTART and DTEND of every block are the least and the greatest  *)
(* posted date of the whole group, as numbers.                             *)
(***************************************************************************)
BlocksOf(body) == {p \in 1..Len(body) : body[p].tag = "STMTRS"}

BlockEnd(body, p) ==
    CHOOSE q \in p + 1..Len(body) :
        /\ body[q].tag = "/STMTRS"
        /\ \A x \in p + 1..q - 1 : body[x].tag # "/STMTRS"

StatementOf(body, trns) ==
    LET accounts == {trns[i].account : i \in 1..Len(trns)}
        value(s) == int(s).value
    IN  /\ \A a \in accounts :
              Cardinality({p \in BlocksOf(body) : body[p].account = a}) = 1
        /\ Cardinality(BlocksOf(body)) = Cardinality(accounts)
        /\ Cardinality({x \in 1..Len(body) : body[x].tag = "STMTTRN"}) = Len(trns)
        /\ \A p \in BlocksOf(body) :
              LET inner == SubSeq(body, p + 1, BlockEnd(body, p) - 1)
              IN  /\ \A x \in 1..Len(inner) : inner[x].tag = "STMTTRN"
                  /\ [x \in 1..Len(inner) |-> inner[x].trn]
                       = SelectSeq(trns, LAMBDA t : t.account = body[p].account)
                  /\ \A i \in 1..Len(trns) :
                        /\ body[p].start_date <= value(trns[i].dtposted)
                        /\ body[p].end_date >= value(trns[i].dtposted)
                  /\ \E i \in 1..Len(trns) :
                        body[p].start_date = value(trns[i].dtposted)
                  /\ \E i \in 1..Len(trns) :
                        body[p].end_date = value(trns[i].dtposted)

IntegerDates(trns) == \A i \in 1..Len(trns) : IsReturned(int(trns[i].dtposted))

C7_StatementPerAccount ==
    \A f \in 1..Len(output_files) :
        LET trns == transactions[output_files[f].month]
        IN  /\ IntegerDates(trns)
            /\ StatementOf(output_files[f].body, trns)

\* C7 as amended: the same, for any non-empty group whose posted dates are
\* all accepted by int(); for a group with a date int() rejects,
\* write_ofx_file raises ValueError and emits nothing.
C7_StatementPerAccountOfIntegerDates ==
    \A f \in 1..Len(output_files) :
        LET trns == transactions[output_files[f].month]
        IN  IF IntegerDates(trns)
            THEN StatementOf(output_files[f].body, trns)
            ELSE /\ output_files[f].body = <<>>
                 /\ f = Len(output_files)
                 /\ pc = "aborted" /\ error = "ValueError"

\* A file of two accounts, the second with two transactions, whose days
\* differ from the day of the first account's transaction.
C7_Witness ==
    \E f \in 1..Len(output_files) :
        LET body == output_files[f].body
        IN  /\ Len(body) = 9
            /\ Cardinality(BlocksOf(body)) = 2
            /\ body[2].start_date # body[2].end_date
            /\ body[3].trn.dtposted = body[4].trn.dtposted
            /\ body[7].trn.dtposted # body[3].trn.dtposted

(***************************************************************************)
(* C8: the postedDate of every Transaction read_csv_file builds is exactly *)
(* 8 numeric characters, for any input row.                                *)
(***************************************************************************)
C8_DateIsEightDigits ==
    \A p \in Places : Len(TrnAt(p).dtposted) = 8 /\ IsNumeric(TrnAt(p).dtposted)

\* C8 as amended: the postedDate of every Transaction is the date field of
\* its row, unchanged and unchecked, so it is 8 numeric characters exactly
\* when the row's date is; a group with a date int() rejects makes the
\* renderer's date range raise ValueError, which ends the run.
C8_DateIsTheRowsDate ==
    /\ \A j \in 1..Processed : TrnOfRow(j).dtposted = csvfile[j].Datum
    /\ \A f \in 1..Len(output_files) :
          ~IntegerDates(transactions[output_files[f].month])
          => (pc = "aborted" /\ error = "ValueError" /\ output_files[f].body = <<>>)
    /\ error = "ValueError"
          => \E j \in 1..Processed : ~IsNumeric(csvfile[j].Datum)

C8_Witness ==
    /\ error = "ValueError"
    /\ Len(output_files) = 2
    /\ output_files[1].body # <<>>
    /\ output_files[2].body = <<>>
    /\ \E p \in Places : TrnAt(p).dtposted = <<"2", "0", "1", "7", "0", "3", "-", "1">>

(***************************************************************************)
(* C9: make_unique_id returns the base fingerprint when it is not in the   *)
(* used-ID set, and otherwise the base followed by the least k >= 1, in    *)
(* decimal, such that base + k is not in the set; the ID is added to the   *)
(* set before the next row is processed.                                   *)
(***************************************************************************)
Decimal(k) ==
    IF k < 10 THEN <<Digits[k + 1]>>
    ELSE <<Digits[(k \div 10) + 1], Digits[(k % 10) + 1]>>

C9_UniqueIdRule ==
    [][/\ rownum' = rownum + 1 =>
            LET row  == csvfile[rownum]
                trn  == transactions'[KeyOf(row)]
                            [Cardinality({i \in 1..rownum :
                                             KeyOf(csvfile[i]) = KeyOf(row)})]
                base == row.Tegenrekening \o row.Datum
                        \o extract_time(fix_text(row.Mededelingen))
                        \o SelectSeq(get_transaction_amount(row.Bedrag, row.AfBij),
                                     LAMBDA c : c \notin {"-", "."})
                candidate(k) == IF k = 0 THEN base ELSE base \o Decimal(k)
            IN  /\ \E k \in 0..Cardinality(idslist) :
                      /\ trn.fitid = candidate(k)
                      /\ candidate(k) \notin idslist
                      /\ \A j \in 0..k - 1 : candidate(j) \in idslist
                /\ idslist' = idslist \cup {trn.fitid}
       /\ (call.fn = "make_unique_id" /\ ret' # ret) =>
            LET base == call.accountto \o call.dtposted \o call.time
                        \o SelectSeq(call.trnamt, LAMBDA c : c \notin {"-", "."})
                candidate(k) == IF k = 0 THEN base ELSE base \o Decimal(k)
            IN  /\ \E k \in 0..Cardinality(idslist) :
                      /\ ret' = Returned(candidate(k))
                      /\ candidate(k) \notin idslist
                      /\ \A j \in 0..k - 1 : candidate(j) \in idslist
                /\ idslist' = idslist \cup {ret'.value}]_vars

\* A call that found the base and the suffixes 1 to 9 used, a later one
\* too, and returned the base followed by "10", now in the set.
C9_Witness ==
    /\ call.fn = "make_unique_id"
    /\ ret # Pending
    /\ Cardinality(idslist) = 12
    /\ ret.value = call.accountto \o call.dtposted \o call.time
                   \o <<"5", "0", "0", "1", "0">>
    /\ ret.value \in idslist

\* In the run: a row whose base and whose base + "1" are both used got
\* base + "2".
C9_RunWitness ==
    \E p \in Places :
        /\ TrnAt(p).fitid = BaseOf(TrnAt(p)) \o <<"2">>
        /\ BaseOf(TrnAt(p)) \o <<"1">> \in idslist
        /\ TrnAt(p).fitid \in idslist

(***************************************************************************)
(* C10: no output file is opened before every row is normalized,           *)
(* classified, given an ID and grouped; a row that fails (a missing field, *)
(* an unknown flag on a flagged code) ends the run with no output file     *)
(* and no row skipped; the files are written one group at a time in        *)
(* ascending order of the period key.                                      *)
(***************************************************************************)
C10_ReadAllThenWriteInOrder ==
    /\ output_files # <<>>
          => (Processed = Len(csvfile) /\ Cardinality(Places) = Len(csvfile))
    /\ (\E j \in 1..Len(csvfile) : RowFails(csvfile[j]))
          => (output_files = <<>> /\ pc \in {"read", "aborted"})
    /\ error \in {"KeyError", "TypeError"}
          => /\ pc = "aborted"
             /\ RowFails(csvfile[rownum])
             /\ \A j \in 1..Processed : ~RowFails(csvfile[j])
             /\ Cardinality(Places) = Processed
    /\ pc = "read" /\ rownum <= Len(csvfile) /\ RowFails(csvfile[rownum])
          => \A j \in 1..Processed : ~RowFails(csvfile[j])
    /\ \A f \in 1..Len(output_files) :
          /\ output_files[f].month \in DOMAIN transactions
          /\ \A g \in 1..f - 1 :
                StrLess(output_files[g].month, output_files[f].month)
          /\ \A k \in DOMAIN transactions :
                StrLess(k, output_files[f].month)
                    => \E g \in 1..f - 1 : output_files[g].month = k
    /\ pc = "done"
          => {output_files[f].month : f \in 1..Len(output_files)} = DOMAIN transactions

\* Two groups, read in descending order of their keys, both written.
C10_Witness ==
    /\ pc = "done"
    /\ Len(output_files) = 2
    /\ output_files[1].body # <<>> /\ output_files[2].body # <<>>
    /\ StrLess(KeyOf(csvfile[2]), KeyOf(csvfile[1]))

====
